---- MODULE Spec2Model ----
(***************************************************************************)
(* Booking / wallet / top-up state machine of the warnet backend.          *)
(*                                                                         *)
(* The state is the content of the tables the controllers write           *)
(* (bookings, cafe_wallets, bowar_transactions, pcs, chat_messages), the   *)
(* wall clock and the HTTP response of the last request.  Row ids are the  *)
(* position of the row in its table; id 0 stands for null.  Money is in    *)
(* whole rupiah.                                                           *)
(*                                                                         *)
(* Spec      the booking, wallet and top-up handlers, each action one      *)
(*           handler run from its first line to its response (requests     *)
(*           run one after another);                                       *)
(* SpecF     the handlers that write a wallet or open a database           *)
(*           transaction, in which a step of a request may throw;          *)
(* SpecC     two wallet-funded create requests interleaved statement by    *)
(*           statement;                                                    *)
(* SpecP     create, approve and cancel with two bookings on one PC;       *)
(* SpecT     two approve requests for one pending top-up interleaved       *)
(*           statement by statement;                                       *)
(* SpecB     a cancel and an approve, or two of a kind, for one booking    *)
(*           running at the same time;                                     *)
(* SpecChat  the chat handlers.                                            *)
(***************************************************************************)
EXTENDS Integers, Sequences, FiniteSets, TLC

VARIABLES bookings, wallets, txs, pcs, now, resp, credits, faults, chat, conc, listing

vars == <<bookings, wallets, txs, pcs, now, resp, credits, faults, chat, conc, listing>>
db == <<bookings, wallets, txs, pcs>>
(* what the booking and wallet handlers never touch when nothing fails:    *)
(* the count of failed steps, the chat_messages table, the database        *)
(* transactions that are still open and the rows of the last chat listing  *)
rest == <<faults, chat, conc, listing>>

(***************************************************************************)
(* Bounds of the model.                                                    *)
(***************************************************************************)
MaxBookings == 1
MaxTxs == 3
MaxTime == 3
MaxFaults == 1
MaxMessages == 2

(***************************************************************************)
(* Rows of the users and warnets tables that the handlers read.            *)
(***************************************************************************)
Users == {1, 2}
Customers == {1}
Warnets == {1, 2}
PcNumbers == {1, 2}

(* user 3 is a plain user without a venue (warnet_id null); only the chat  *)
(* handlers meet this user                                                 *)
ChatUsers == {1, 2, 3}

role(u) == IF u = 1 THEN "member" ELSE IF u = 2 THEN "operator" ELSE "user"
warnet_id(u) == IF u = 1 THEN 2 ELSE IF u = 2 THEN 1 ELSE 0

regular_price_per_hour(w) == 10000
member_price_per_hour(w) == 8000

CancelWindow == 2

(***************************************************************************)
(* Values the requests carry.                                              *)
(***************************************************************************)
Durations == {-1, 2}
PaymentMethods == {"dompet_bowar", "bank_transfer"}
TopupAmounts == {-10000, 25000}
PaymentAmounts == {10000}
RefundAmounts == {-10000, 10000}

NoWallet == [exists |-> FALSE, balance |-> 0]
NoPc == [status |-> "none", current_booking_id |-> 0]

BookingIds == 1..MaxBookings
TxIds == 1..MaxTxs

(* the response: its status code and the amount, price or deadline its body reports *)
Respond(op, code, data) ==
    resp' = [op |-> op, code |-> code, data |-> data]

(* the row is written without its venue *)
AddTx_NoVenue(u, type, amount, b, w, status) ==
    /\ txs' = Append(txs, [user_id |-> u, type |-> type, amount |-> amount,
                           booking_id |-> b, warnet_id |-> 0, status |-> status,
                           approved_by |-> 0])
    /\ credits' = Append(credits, 0)

(* BowarTransaction.create / transaction.save() of a new row *)
AddTx(u, type, amount, b, w, status) ==
    /\ txs' = Append(txs, [user_id |-> u, type |-> type, amount |-> amount,
                           booking_id |-> b, warnet_id |-> w, status |-> status,
                           approved_by |-> 0])
    /\ credits' = Append(credits, 0)

Init ==
    /\ bookings = <<>>
    /\ wallets = [k \in Users \X Warnets |->
                    IF k = <<1, 1>> THEN [exists |-> TRUE, balance |-> 0] ELSE NoWallet]
    /\ txs = <<>>
    /\ pcs = [k \in Warnets \X PcNumbers |->
                IF k[2] = 2 THEN [status |-> "maintenance", current_booking_id |-> 0]
                ELSE NoPc]
    /\ now = 0
    /\ resp = [op |-> "none", code |-> 0, data |-> 0]
    /\ credits = <<>>
    /\ faults = 0
    /\ chat = <<>>
    /\ conc = <<>>
    /\ listing = {}

(* The wall clock read by DateTime.now().  Only a booking's cancel window  *)
(* reads it, so the clock is started by the first booking.                 *)
Tick ==
    /\ now < MaxTime
    /\ Len(bookings) > 0
    /\ now' = now + 1
    /\ Respond("none", 0, 0)
    /\ UNCHANGED <<bookings, wallets, txs, pcs, credits, rest>>

(***************************************************************************)
(* BowarTransactionController.topup                                        *)
(***************************************************************************)
Topup(u, amount, w) ==
    /\ Len(txs) < MaxTxs
    /\ UNCHANGED <<bookings, wallets, pcs, now, rest>>
    /\ IF amount <= 0
       THEN Respond("topup", 400, 0) /\ UNCHANGED <<txs, credits>>
       ELSE /\ AddTx(u, "topup", amount, 0, w, "pending")
            /\ Respond("topup", 201, amount)

(***************************************************************************)
(* BookingController.create                                                *)
(***************************************************************************)
(* request.file('paymentProofImage') yields a file only when the body is   *)
(* multipart/form-data, and every field of such a body, warnetId included, *)
(* arrives as a string; the fields of a JSON body keep their numbers.      *)
IsFormData(hasProof) == hasProof

(* a === b for the number a read from the database and the request field   *)
(* b: a string is never strictly equal to a number                         *)
StrictEquals(a, b, bIsString) == ~bIsString /\ a = b

isMemberBooking(u, w, form) ==
    role(u) = "member" /\ StrictEquals(warnet_id(u), w, form)

pricePerHour(u, w, form) ==
    IF isMemberBooking(u, w, form)
    THEN member_price_per_hour(w) ELSE regular_price_per_hour(w)

totalPrice(u, w, duration, form) == pricePerHour(u, w, form) * duration

NewBooking(u, w, p, duration, form, status, payment_status) ==
    [user_id |-> u, warnet_id |-> w, pc_number |-> p, duration |-> duration,
     status |-> status, payment_status |-> payment_status,
     price_per_hour |-> pricePerHour(u, w, form),
     total_price |-> totalPrice(u, w, duration, form),
     is_member_booking |-> isMemberBooking(u, w, form),
     can_cancel_until |-> now + CancelWindow,
     approved_by |-> 0, approved_at |-> -1]

(* the PC row is marked occupied without the reference to the booking *)
PcUpdateOrCreate_NoReference(w, p, b) ==
    pcs' = [pcs EXCEPT ![<<w, p>>] = [status |-> "occupied", current_booking_id |-> 0]]

(* Pc.updateOrCreate({warnet_id, pc_number}, {status: 'occupied', current_booking_id}) *)
PcUpdateOrCreate(w, p, b) ==
    pcs' = [pcs EXCEPT ![<<w, p>>] = [status |-> "occupied", current_booking_id |-> b]]

(* the balance check left out *)
CreateSufficient_Unchecked(cafeWallet, total) == TRUE

(* the wallet row exists and covers the price *)
CreateSufficient(cafeWallet, total) == cafeWallet.exists /\ cafeWallet.balance >= total

(* the PC is marked occupied whatever the payment method *)
CreateWrites_AlwaysOccupies(u, w, p, duration, paymentMethod, form) ==
    LET id == Len(bookings) + 1
        total == totalPrice(u, w, duration, form)
    IN  /\ PcUpdateOrCreate(w, p, id)
        /\ IF paymentMethod = "dompet_bowar"
           THEN /\ wallets' = [wallets EXCEPT ![<<u, w>>].balance = @ - total]
                /\ AddTx(u, "payment", -total, id, w, "completed")
                /\ bookings' = Append(bookings,
                       NewBooking(u, w, p, duration, form, "active", "paid"))
           ELSE /\ bookings' = Append(bookings,
                       NewBooking(u, w, p, duration, form, "pending", "pending"))
                /\ UNCHANGED <<wallets, txs, credits>>

(* what create has written when trx.commit() returns *)
CreateWrites(u, w, p, duration, paymentMethod, form) ==
    LET id == Len(bookings) + 1
        total == totalPrice(u, w, duration, form)
    IN  IF paymentMethod = "dompet_bowar"
        THEN /\ wallets' = [wallets EXCEPT ![<<u, w>>].balance = @ - total]
             /\ AddTx(u, "payment", -total, id, w, "completed")
             /\ bookings' = Append(bookings,
                    NewBooking(u, w, p, duration, form, "active", "paid"))
             /\ PcUpdateOrCreate(w, p, id)
        ELSE /\ bookings' = Append(bookings,
                    NewBooking(u, w, p, duration, form, "pending", "pending"))
             /\ UNCHANGED <<wallets, txs, pcs, credits>>

CreateRequest(u, w, p, duration, paymentMethod, hasProof) ==
    /\ UNCHANGED <<now, rest>>
    /\ IF paymentMethod = "bank_transfer" /\ ~hasProof
       THEN Respond("create", 400, 0) /\ UNCHANGED <<db, credits>>
       ELSE IF isMemberBooking(u, w, IsFormData(hasProof)) /\ duration <= 1
       THEN Respond("create", 400, 0) /\ UNCHANGED <<db, credits>>
       ELSE IF pcs[<<w, p>>].status = "maintenance"
       THEN Respond("create", 400, 0) /\ UNCHANGED <<db, credits>>
       ELSE LET form == IsFormData(hasProof)
                total == totalPrice(u, w, duration, form)
                cafeWallet == wallets[<<u, w>>]
            IN  IF paymentMethod = "dompet_bowar" /\ ~CreateSufficient(cafeWallet, total)
                THEN (* trx.rollback(); the body reports the required amount *)
                     Respond("create", 400, total) /\ UNCHANGED <<db, credits>>
                ELSE /\ CreateWrites(u, w, p, duration, paymentMethod, form)
                     /\ Respond("create", 201, total)

Create(u, w, p, duration, paymentMethod, hasProof) ==
    /\ Len(bookings) < MaxBookings
    /\ paymentMethod = "dompet_bowar" => Len(txs) < MaxTxs
    /\ CreateRequest(u, w, p, duration, paymentMethod, hasProof)

(***************************************************************************)
(* BookingController.cancel                                                *)
(***************************************************************************)
(* Booking.canCancel(): the cancel window is still open *)
canCancel(booking) == now <= booking.can_cancel_until

(* BowarTransaction.query().where('booking_id', b).where('type', 'payment').first() *)
HasPaymentTransaction(b) ==
    \E i \in 1..Len(txs) : txs[i].booking_id = b /\ txs[i].type = "payment"

(* the ownership check left out *)
CancelOwns_Anyone(u, booking) == TRUE

CancelOwns(u, booking) == booking.user_id = u

(* the PC row is left as it is *)
CancelReleasePc_Never(b, booking) == UNCHANGED pcs

(* the PC row is released only while it still references this booking *)
CancelReleasePc(b, booking) ==
    LET k == <<booking.warnet_id, booking.pc_number>>
    IN  IF pcs[k].status # "none" /\ pcs[k].current_booking_id = b
        THEN pcs' = [pcs EXCEPT ![k] = [status |-> "available", current_booking_id |-> 0]]
        ELSE UNCHANGED pcs

(* the writes of cancel inside its database transaction and its response  *)
(* (lines 322-392); booking is the model instance loaded by Booking.find:  *)
(* save() writes its changed column, status, and the refund is decided on  *)
(* the payment_status it was loaded with                                   *)
CancelWrites(u, b, booking) ==
    LET paid == booking.payment_status = "paid"
        refund == paid /\ HasPaymentTransaction(b)
        k == <<u, booking.warnet_id>>
    IN  /\ bookings' = [bookings EXCEPT ![b].status = "cancelled"]
        /\ IF refund
           THEN /\ wallets' = [wallets EXCEPT ![k] =
                       [exists |-> TRUE,
                        balance |-> (IF @.exists THEN @.balance ELSE 0)
                                    + booking.total_price]]
                /\ AddTx(u, "refund", booking.total_price, b,
                         booking.warnet_id, "completed")
           ELSE UNCHANGED <<wallets, txs, credits>>
        /\ CancelReleasePc(b, booking)
        /\ Respond("cancel", 200, IF paid THEN booking.total_price ELSE 0)

Cancel(u, b) ==
    /\ UNCHANGED <<now, rest>>
    /\ IF b > Len(bookings)
       THEN Respond("cancel", 404, 0) /\ UNCHANGED <<db, credits>>
       ELSE LET booking == bookings[b] IN
            IF ~CancelOwns(u, booking)
            THEN Respond("cancel", 403, 0) /\ UNCHANGED <<db, credits>>
            ELSE IF booking.status = "cancelled" \/ booking.status = "completed"
            THEN Respond("cancel", 400, 0) /\ UNCHANGED <<db, credits>>
            ELSE IF ~canCancel(booking)
            THEN (* the body reports can_cancel_until *)
                 Respond("cancel", 400, booking.can_cancel_until)
                 /\ UNCHANGED <<db, credits>>
            ELSE /\ (booking.payment_status = "paid" /\ HasPaymentTransaction(b))
                        => Len(txs) < MaxTxs
                 /\ CancelWrites(u, b, booking)

(***************************************************************************)
(* OperatorBookingsController.approve / reject                             *)
(***************************************************************************)
(* the venue check left out *)
OperatorMayAct_AnyVenue(u, booking) == TRUE

OperatorMayAct(u, booking) == booking.warnet_id = warnet_id(u)

(* only the paid check *)
ApproveRefused_OnlyPaid(booking) == booking.payment_status = "paid"

(* "already approved or cancelled" *)
ApproveRefused(booking) == booking.payment_status = "paid" \/ booking.status = "cancelled"

(* only the cancelled check *)
RejectRefused_OnlyCancelled(booking) == booking.status = "cancelled"

(* only the paid check *)
RejectRefused_OnlyPaid(booking) == booking.payment_status = "paid"

RejectRefused(booking) == booking.payment_status = "paid" \/ booking.status = "cancelled"

(* the booking is marked paid and active without the approver's stamp *)
ApproveBookingWrites_NoStamp(u, b) ==
    /\ bookings' = [bookings EXCEPT ![b] =
            [@ EXCEPT !.payment_status = "paid", !.status = "active"]]
    /\ PcUpdateOrCreate(bookings[b].warnet_id, bookings[b].pc_number, b)

(* the writes of approve inside its database transaction; -1 is a null     *)
(* approved_at                                                             *)
ApproveBookingWrites(u, b) ==
    /\ bookings' = [bookings EXCEPT ![b] =
            [@ EXCEPT !.payment_status = "paid", !.status = "active",
                      !.approved_by = u, !.approved_at = now]]
    /\ PcUpdateOrCreate(bookings[b].warnet_id, bookings[b].pc_number, b)

ApproveBooking(u, b) ==
    /\ UNCHANGED <<now, wallets, txs, credits, rest>>
    /\ IF role(u) # "operator"
       THEN Respond("approveBooking", 403, 0) /\ UNCHANGED <<bookings, pcs>>
       ELSE IF b > Len(bookings)
       THEN Respond("approveBooking", 404, 0) /\ UNCHANGED <<bookings, pcs>>
       ELSE LET booking == bookings[b] IN
            IF ~OperatorMayAct(u, booking)
            THEN Respond("approveBooking", 403, 0) /\ UNCHANGED <<bookings, pcs>>
            ELSE IF ApproveRefused(booking)
            THEN Respond("approveBooking", 400, 0) /\ UNCHANGED <<bookings, pcs>>
            ELSE /\ ApproveBookingWrites(u, b)
                 /\ Respond("approveBooking", 200, 0)

RejectBooking(u, b) ==
    /\ UNCHANGED <<now, wallets, txs, credits, pcs, rest>>
    /\ IF role(u) # "operator"
       THEN Respond("rejectBooking", 403, 0) /\ UNCHANGED bookings
       ELSE IF b > Len(bookings)
       THEN Respond("rejectBooking", 404, 0) /\ UNCHANGED bookings
       ELSE LET booking == bookings[b] IN
            IF ~OperatorMayAct(u, booking)
            THEN Respond("rejectBooking", 403, 0) /\ UNCHANGED bookings
            ELSE IF RejectRefused(booking)
            THEN Respond("rejectBooking", 400, 0) /\ UNCHANGED bookings
            ELSE /\ bookings' = [bookings EXCEPT ![b] =
                        [@ EXCEPT !.payment_status = "rejected", !.status = "cancelled"]]
                 /\ Respond("rejectBooking", 200, 0)

(***************************************************************************)
(* BowarTransactionController.payment / refund                             *)
(***************************************************************************)
Payment(u, b, amount) ==
    /\ Len(txs) < MaxTxs
    /\ UNCHANGED <<now, bookings, pcs, rest>>
    /\ IF b > Len(bookings)
       THEN Respond("payment", 404, 0) /\ UNCHANGED <<wallets, txs, credits>>
       ELSE LET booking == bookings[b]
                k == <<u, booking.warnet_id>>
            IN  IF booking.user_id # u
                THEN Respond("payment", 403, 0) /\ UNCHANGED <<wallets, txs, credits>>
                ELSE IF ~wallets[k].exists \/ wallets[k].balance < amount
                THEN Respond("payment", 400, 0) /\ UNCHANGED <<wallets, txs, credits>>
                ELSE /\ wallets' = [wallets EXCEPT ![k].balance = @ - amount]
                     /\ AddTx(u, "payment", -amount, b, booking.warnet_id, "completed")
                     /\ Respond("payment", 201, -amount)

Refund(u, b, amount) ==
    /\ Len(txs) < MaxTxs
    /\ b <= Len(bookings)
    /\ UNCHANGED <<now, bookings, pcs, rest>>
    /\ IF amount <= 0
       THEN Respond("refund", 400, 0) /\ UNCHANGED <<wallets, txs, credits>>
       ELSE /\ LET k == <<u, bookings[b].warnet_id>>
               IN  wallets' = [wallets EXCEPT ![k] =
                       [exists |-> TRUE,
                        balance |-> (IF @.exists THEN @.balance ELSE 0) + amount]]
            /\ AddTx(u, "refund", amount, b, bookings[b].warnet_id, "completed")
            /\ Respond("refund", 201, amount)

(***************************************************************************)
(* BowarTransactionController.approve / reject (top-ups)                   *)
(***************************************************************************)
TopupOperatorMayAct(u, transaction) == warnet_id(u) = transaction.warnet_id

(* the status check left out: a processed top-up can be approved again *)
TopupIsPending_Unchecked(transaction) == TRUE

(* a failed top-up still counts as pending *)
TopupIsPending_NotCompleted(transaction) == transaction.status # "completed"

TopupIsPending(transaction) == transaction.status = "pending"

ApproveTopup(u, t) ==
    /\ UNCHANGED <<now, bookings, pcs, rest>>
    /\ IF role(u) # "operator"
       THEN Respond("approveTopup", 403, 0) /\ UNCHANGED <<wallets, txs, credits>>
       ELSE IF t > Len(txs)
       THEN Respond("approveTopup", 404, 0) /\ UNCHANGED <<wallets, txs, credits>>
       ELSE LET transaction == txs[t]
                k == <<transaction.user_id, transaction.warnet_id>>
            IN  IF ~TopupOperatorMayAct(u, transaction)
                THEN Respond("approveTopup", 403, 0)
                     /\ UNCHANGED <<wallets, txs, credits>>
                ELSE IF ~TopupIsPending(transaction) \/ transaction.type # "topup"
                THEN Respond("approveTopup", 400, 0)
                     /\ UNCHANGED <<wallets, txs, credits>>
                ELSE /\ wallets' = [wallets EXCEPT ![k] =
                            [exists |-> TRUE,
                             balance |-> (IF @.exists THEN @.balance ELSE 0)
                                         + transaction.amount]]
                     /\ txs' = [txs EXCEPT ![t] =
                            [@ EXCEPT !.status = "completed", !.approved_by = u]]
                     /\ credits' = [credits EXCEPT ![t] = @ + 1]
                     /\ Respond("approveTopup", 200, transaction.amount)

RejectTopup(u, t) ==
    /\ UNCHANGED <<now, bookings, pcs, wallets, credits, rest>>
    /\ IF role(u) # "operator"
       THEN Respond("rejectTopup", 403, 0) /\ UNCHANGED txs
       ELSE IF t > Len(txs)
       THEN Respond("rejectTopup", 404, 0) /\ UNCHANGED txs
       ELSE LET transaction == txs[t] IN
            IF ~TopupOperatorMayAct(u, transaction)
            THEN Respond("rejectTopup", 403, 0) /\ UNCHANGED txs
            ELSE IF ~TopupIsPending(transaction)
            THEN Respond("rejectTopup", 400, 0) /\ UNCHANGED txs
            ELSE /\ txs' = [txs EXCEPT ![t].status = "failed"]
                 /\ Respond("rejectTopup", 200, 0)

(***************************************************************************)
(* End of a session: the booking is completed and its PC is released.      *)
(***************************************************************************)
CompleteSession(b) ==
    /\ b <= Len(bookings)
    /\ bookings[b].status = "active"
    /\ bookings' = [bookings EXCEPT ![b].status = "completed"]
    /\ LET k == <<bookings[b].warnet_id, bookings[b].pc_number>>
       IN  IF pcs[k].current_booking_id = b
           THEN pcs' = [pcs EXCEPT ![k] = [status |-> "available", current_booking_id |-> 0]]
           ELSE UNCHANGED pcs
    /\ Respond("complete", 0, 0)
    /\ UNCHANGED <<now, wallets, txs, credits, rest>>

(***************************************************************************)
(* Requests in which one awaited step throws.  Inside a database           *)
(* transaction the catch block rolls back; a step after trx.commit(), or   *)
(* a step of a handler that opens no transaction, leaves what was already  *)
(* written.  Every such request is answered 500 by the outer catch.        *)
(***************************************************************************)
Fault(op) ==
    /\ faults < MaxFaults
    /\ faults' = faults + 1
    /\ Respond(op, 500, 0)
    /\ UNCHANGED <<now, chat, conc, listing>>

(* create passes its validation and opens the transaction *)
CreateOpensTrx(u, w, p, duration, paymentMethod, hasProof) ==
    /\ Len(bookings) < MaxBookings
    /\ paymentMethod = "dompet_bowar" => Len(txs) < MaxTxs
    /\ ~(paymentMethod = "bank_transfer" /\ ~hasProof)
    /\ ~(isMemberBooking(u, w, IsFormData(hasProof)) /\ duration <= 1)
    /\ pcs[<<w, p>>].status # "maintenance"

(* committed = FALSE: a step up to trx.commit() throws;                    *)
(* committed = TRUE: booking.load('warnet') after trx.commit() throws      *)
CreateFails(u, w, p, duration, paymentMethod, hasProof, committed) ==
    /\ CreateOpensTrx(u, w, p, duration, paymentMethod, hasProof)
    /\ Fault("create")
    /\ IF committed
       THEN LET form == IsFormData(hasProof)
                total == totalPrice(u, w, duration, form)
            IN  /\ paymentMethod = "dompet_bowar"
                        => CreateSufficient(wallets[<<u, w>>], total)
                /\ CreateWrites(u, w, p, duration, paymentMethod, form)
       ELSE UNCHANGED <<db, credits>>

(* a step of cancel inside its transaction throws (nothing is awaited      *)
(* after trx.commit())                                                     *)
CancelFails(u, b) ==
    /\ b <= Len(bookings)
    /\ CancelOwns(u, bookings[b])
    /\ bookings[b].status \notin {"cancelled", "completed"}
    /\ canCancel(bookings[b])
    /\ Fault("cancel")
    /\ UNCHANGED <<db, credits>>

(* committed = FALSE: a step up to trx.commit() throws;                    *)
(* committed = TRUE: booking.load('user') after trx.commit() throws        *)
ApproveBookingFails(u, b, committed) ==
    /\ role(u) = "operator"
    /\ b <= Len(bookings)
    /\ OperatorMayAct(u, bookings[b])
    /\ ~ApproveRefused(bookings[b])
    /\ Fault("approveBooking")
    /\ IF committed
       THEN ApproveBookingWrites(u, b) /\ UNCHANGED <<wallets, txs, credits>>
       ELSE UNCHANGED <<db, credits>>

(* saved = FALSE: cafeWallet.save() throws;                                *)
(* saved = TRUE: BowarTransaction.create throws after cafeWallet.save()    *)
PaymentFails(u, b, amount, saved) ==
    /\ b <= Len(bookings)
    /\ bookings[b].user_id = u
    /\ LET k == <<u, bookings[b].warnet_id>>
       IN  /\ wallets[k].exists /\ wallets[k].balance >= amount
           /\ IF saved
              THEN wallets' = [wallets EXCEPT ![k].balance = @ - amount]
              ELSE UNCHANGED wallets
    /\ Fault("payment")
    /\ UNCHANGED <<bookings, txs, pcs, credits>>

RefundFails(u, b, amount, saved) ==
    /\ b <= Len(bookings)
    /\ amount > 0
    /\ LET k == <<u, bookings[b].warnet_id>>
       IN  IF saved
           THEN wallets' = [wallets EXCEPT ![k] =
                    [exists |-> TRUE,
                     balance |-> (IF @.exists THEN @.balance ELSE 0) + amount]]
           ELSE UNCHANGED wallets
    /\ Fault("refund")
    /\ UNCHANGED <<bookings, txs, pcs, credits>>

(* saved = FALSE: cafeWallet.save() throws;                                *)
(* saved = TRUE: transaction.save() throws after cafeWallet.save(), the    *)
(* top-up stays pending                                                    *)
ApproveTopupFails(u, t, saved) ==
    /\ role(u) = "operator"
    /\ t <= Len(txs)
    /\ TopupOperatorMayAct(u, txs[t])
    /\ TopupIsPending(txs[t]) /\ txs[t].type = "topup"
    /\ LET k == <<txs[t].user_id, txs[t].warnet_id>>
       IN  IF saved
           THEN /\ wallets' = [wallets EXCEPT ![k] =
                        [exists |-> TRUE,
                         balance |-> (IF @.exists THEN @.balance ELSE 0)
                                     + txs[t].amount]]
                /\ credits' = [credits EXCEPT ![t] = @ + 1]
           ELSE UNCHANGED <<wallets, credits>>
    /\ Fault("approveTopup")
    /\ UNCHANGED <<bookings, txs, pcs>>

Next ==
    \/ Tick
    \/ \E u \in Customers, a \in TopupAmounts, w \in Warnets : Topup(u, a, w)
    \/ \E u \in Customers, w \in Warnets, p \in PcNumbers, d \in Durations,
          m \in PaymentMethods, f \in BOOLEAN : Create(u, w, p, d, m, f)
    \/ \E u \in Users, b \in BookingIds : Cancel(u, b)
    \/ \E u \in Users, b \in BookingIds : ApproveBooking(u, b)
    \/ \E u \in Users, b \in BookingIds : RejectBooking(u, b)
    \/ \E u \in Users, b \in BookingIds, a \in PaymentAmounts : Payment(u, b, a)
    \/ \E u \in Customers, b \in BookingIds, a \in RefundAmounts : Refund(u, b, a)
    \/ \E u \in Users, t \in TxIds : ApproveTopup(u, t)
    \/ \E u \in Users, t \in TxIds : RejectTopup(u, t)
    \/ \E b \in BookingIds : CompleteSession(b)

Spec == Init /\ [][Next]_vars

(***************************************************************************)
(* Bookings that compete for a PC: one booking more than in Spec may be    *)
(* created, so that a second booking can be made on the PC of the first.   *)
(***************************************************************************)
MaxPcBookings == MaxBookings + 1

CreateOnPc(u, w, p, duration, paymentMethod, hasProof) ==
    /\ Len(bookings) < MaxPcBookings
    /\ paymentMethod = "dompet_bowar" => Len(txs) < MaxTxs
    /\ CreateRequest(u, w, p, duration, paymentMethod, hasProof)

NextP ==
    \/ \E u \in Customers, w \in Warnets, p \in PcNumbers, d \in Durations,
          m \in PaymentMethods, f \in BOOLEAN : CreateOnPc(u, w, p, d, m, f)
    \/ \E u \in Users, b \in 1..MaxPcBookings : ApproveBooking(u, b)
    \/ \E u \in Users, b \in 1..MaxPcBookings : Cancel(u, b)

SpecP == Init /\ [][NextP]_vars

(***************************************************************************)
(* ChatController.store / markRead                                         *)
(***************************************************************************)
(* ChatMessage.markAsRead(): the flag is set and the row saved *)
markAsRead(m) == chat' = [chat EXCEPT ![m].is_read = TRUE]

(* "User marks operator messages, Operator marks user messages": the      *)
(* second branch compares the caller's warnet_id only, not the role        *)
MarkReadAllowed(u, message) ==
    \/ message.sender_type = "operator" /\ message.user_id = u
    \/ message.sender_type = "user" /\ warnet_id(u) = message.warnet_id

(* POST /chat: w and target are the request's warnet_id and user_id *)
ChatStore(u, empty, w, target) ==
    /\ Len(chat) < MaxMessages
    /\ UNCHANGED <<db, now, credits, faults, conc, listing>>
    /\ IF empty
       THEN Respond("chatStore", 400, 0) /\ UNCHANGED chat
       ELSE /\ chat' = Append(chat,
                    IF role(u) # "operator"
                    THEN [user_id |-> u, warnet_id |-> w, sender_id |-> u,
                          sender_type |-> "user", is_read |-> FALSE]
                    ELSE [user_id |-> target, warnet_id |-> warnet_id(u), sender_id |-> u,
                          sender_type |-> "operator", is_read |-> FALSE])
            /\ Respond("chatStore", 201, 0)

(* PATCH /chat/read/:id: answers 200 whether or not the flag was set *)
MarkRead(u, m) ==
    /\ UNCHANGED <<db, now, credits, faults, conc, listing>>
    /\ IF m > Len(chat)
       THEN Respond("markRead", 404, 0) /\ UNCHANGED chat
       ELSE /\ IF MarkReadAllowed(u, chat[m]) THEN markAsRead(m) ELSE UNCHANGED chat
            /\ Respond("markRead", 200, 0)

(* GET /chat/:warnetId (userId = 0) and GET /operator/chat/:userId         *)
(* (warnetId = 0); listing holds the ids of the rows returned              *)
ChatIndex(u, warnetId, userId) ==
    /\ UNCHANGED <<db, now, credits, faults, conc, chat>>
    /\ IF userId = 0 /\ warnetId # 0
       THEN /\ listing' = {m \in 1..Len(chat) :
                    chat[m].user_id = u /\ chat[m].warnet_id = warnetId}
            /\ Respond("chatIndex", 200, 0)
       ELSE IF userId # 0 /\ warnet_id(u) # 0
       THEN /\ listing' = {m \in 1..Len(chat) :
                    chat[m].user_id = userId /\ chat[m].warnet_id = warnet_id(u)}
            /\ Respond("chatIndex", 200, 0)
       ELSE listing' = {} /\ Respond("chatIndex", 400, 0)

NextChat ==
    \/ \E u \in ChatUsers, e \in BOOLEAN, w \in Warnets, t \in ChatUsers :
            ChatStore(u, e, w, t)
    \/ \E u \in ChatUsers, m \in 1..MaxMessages : MarkRead(u, m)
    \/ \E u \in ChatUsers, w \in Warnets : ChatIndex(u, w, 0)
    \/ \E u \in ChatUsers, t \in ChatUsers : ChatIndex(u, 0, t)

SpecChat == Init /\ [][NextChat]_vars

(***************************************************************************)
(* Two wallet-funded create requests of user 1 at venue 1 running at the   *)
(* same time, statement by statement.  Each runs in its own database       *)
(* transaction: its writes are seen by the other only after trx.commit(),  *)
(* its SELECT of the wallet row takes no lock (the query has no            *)
(* forUpdate()), and its UPDATE of the wallet row waits while the other    *)
(* transaction holds an uncommitted UPDATE of that row.                    *)
(***************************************************************************)
Procs == {1, 2}
ConcDurations == {1, 2}

Idle == [pc |-> "start", duration |-> 0, pc_number |-> 0, seen |-> 0, before |-> 0]

(* the wallet holds one or two approved top-ups of 25000 and both requests *)
(* arrive                                                                  *)
InitC ==
    /\ bookings = <<>>
    /\ \E n \in {1, 2} :
            /\ wallets = [k \in Users \X Warnets |->
                    IF k = <<1, 1>> THEN [exists |-> TRUE, balance |-> n * 25000]
                    ELSE NoWallet]
            /\ txs = [t \in 1..n |->
                    [user_id |-> 1, type |-> "topup", amount |-> 25000, booking_id |-> 0,
                     warnet_id |-> 1, status |-> "completed", approved_by |-> 2]]
            /\ credits = [t \in 1..n |-> 1]
    /\ pcs = [k \in Warnets \X PcNumbers |->
                IF k[2] = 2 THEN [status |-> "maintenance", current_booking_id |-> 0]
                ELSE NoPc]
    /\ now = 0
    /\ resp = [op |-> "none", code |-> 0, data |-> 0]
    /\ faults = 0
    /\ chat = <<>>
    /\ listing = {}
    /\ conc = [q \in Procs |-> Idle]

(* validation passes, the transaction is opened and the booking row is     *)
(* inserted inside it (lines 38-154)                                       *)
ConcBegin(q, p, duration) ==
    /\ conc[q].pc = "start"
    /\ CreateOpensTrx(1, 1, p, duration, "dompet_bowar", FALSE)
    /\ conc' = [conc EXCEPT ![q] =
            [@ EXCEPT !.pc = "inserted", !.duration = duration, !.pc_number = p]]
    /\ UNCHANGED <<db, now, resp, credits, faults, chat, listing>>

(* CafeWallet.query()...useTransaction(trx).first() and the balance check  *)
(* (lines 159-174): the committed row is read without a lock               *)
ConcReadWallet(q) ==
    /\ conc[q].pc = "inserted"
    /\ LET cafeWallet == wallets[<<1, 1>>]
           total == totalPrice(1, 1, conc[q].duration, FALSE)
       IN  IF ~CreateSufficient(cafeWallet, total)
           THEN /\ conc' = [conc EXCEPT ![q].pc = "refused"]
                /\ Respond("create", 400, total)
           ELSE /\ conc' = [conc EXCEPT ![q] =
                        [@ EXCEPT !.pc = "checked", !.seen = cafeWallet.balance]]
                /\ UNCHANGED resp
    /\ UNCHANGED <<db, now, credits, faults, chat, listing>>

(* cafeWallet.balance = Number(cafeWallet.balance) - Number(totalPrice);   *)
(* cafeWallet.save() (lines 177-178): the UPDATE takes the row lock        *)
ConcSaveWallet(q) ==
    /\ conc[q].pc = "checked"
    /\ \A r \in Procs : conc[r].pc # "saved"
    /\ conc' = [conc EXCEPT ![q].pc = "saved"]
    /\ UNCHANGED <<db, now, resp, credits, faults, chat, listing>>

(* the payment transaction, the booking update and the PC upsert inside    *)
(* the transaction, then trx.commit() (lines 181-217): the writes of the   *)
(* transaction become the stored rows; the wallet row gets the balance     *)
(* computed from the value read                                            *)
ConcCommit(q) ==
    /\ conc[q].pc = "saved"
    /\ LET total == totalPrice(1, 1, conc[q].duration, FALSE)
           id == Len(bookings) + 1
       IN  /\ conc' = [conc EXCEPT ![q] =
                    [@ EXCEPT !.pc = "committed", !.before = wallets[<<1, 1>>].balance]]
           /\ wallets' = [wallets EXCEPT ![<<1, 1>>].balance = conc[q].seen - total]
           /\ AddTx(1, "payment", -total, id, 1, "completed")
           /\ bookings' = Append(bookings,
                    NewBooking(1, 1, conc[q].pc_number, conc[q].duration, FALSE,
                               "active", "paid"))
           /\ PcUpdateOrCreate(1, conc[q].pc_number, id)
           /\ Respond("create", 201, total)
    /\ UNCHANGED <<now, faults, chat, listing>>

NextC ==
    \/ \E q \in Procs, p \in PcNumbers, d \in ConcDurations : ConcBegin(q, p, d)
    \/ \E q \in Procs : ConcReadWallet(q)
    \/ \E q \in Procs : ConcSaveWallet(q)
    \/ \E q \in Procs : ConcCommit(q)

SpecC == InitC /\ [][NextC]_vars

(***************************************************************************)
(* Two approve requests of operator 2 for the same pending top-up of       *)
(* user 1 at venue 1 running at the same time.  The handler opens no       *)
(* database transaction: every awaited statement is its own committed      *)
(* read or write, and the statements of the two requests interleave.       *)
(***************************************************************************)
ConcTopupAmounts == {10000, 25000}

IdleT == [pc |-> "start", seen |-> 0]

(* the wallet holds no or one approved top-up of 25000, the top-up to      *)
(* approve is the last row of bowar_transactions                           *)
InitT ==
    /\ bookings = <<>>
    /\ \E n \in {0, 1}, amount \in ConcTopupAmounts :
            /\ wallets = [k \in Users \X Warnets |->
                    IF k = <<1, 1>> THEN [exists |-> TRUE, balance |-> n * 25000]
                    ELSE NoWallet]
            /\ txs = [t \in 1..(n + 1) |->
                    IF t <= n
                    THEN [user_id |-> 1, type |-> "topup", amount |-> 25000,
                          booking_id |-> 0, warnet_id |-> 1, status |-> "completed",
                          approved_by |-> 2]
                    ELSE [user_id |-> 1, type |-> "topup", amount |-> amount,
                          booking_id |-> 0, warnet_id |-> 1, status |-> "pending",
                          approved_by |-> 0]]
            /\ credits = [t \in 1..(n + 1) |-> IF t <= n THEN 1 ELSE 0]
    /\ pcs = [k \in Warnets \X PcNumbers |->
                IF k[2] = 2 THEN [status |-> "maintenance", current_booking_id |-> 0]
                ELSE NoPc]
    /\ now = 0
    /\ resp = [op |-> "none", code |-> 0, data |-> 0]
    /\ faults = 0
    /\ chat = <<>>
    /\ listing = {}
    /\ conc = [q \in Procs |-> IdleT]

(* BowarTransaction.find and the checks on the row read (lines 418-448) *)
TopupFind(q) ==
    /\ conc[q].pc = "start"
    /\ LET transaction == txs[Len(txs)]
       IN  IF ~TopupOperatorMayAct(2, transaction)
           THEN /\ conc' = [conc EXCEPT ![q].pc = "refused"]
                /\ Respond("approveTopup", 403, 0)
           ELSE IF ~TopupIsPending(transaction) \/ transaction.type # "topup"
           THEN /\ conc' = [conc EXCEPT ![q].pc = "refused"]
                /\ Respond("approveTopup", 400, 0)
           ELSE /\ conc' = [conc EXCEPT ![q].pc = "found"]
                /\ UNCHANGED resp
    /\ UNCHANGED <<db, now, credits, faults, chat, listing>>

(* CafeWallet.query()...first() (lines 459-462) *)
TopupReadWallet(q) ==
    /\ conc[q].pc = "found"
    /\ LET transaction == txs[Len(txs)]
           cafeWallet == wallets[<<transaction.user_id, transaction.warnet_id>>]
       IN  conc' = [conc EXCEPT ![q] = [pc |-> "read", seen |-> cafeWallet.balance]]
    /\ UNCHANGED <<db, now, resp, credits, faults, chat, listing>>

(* cafeWallet.balance = newBalance; cafeWallet.save() (lines 476-481): the *)
(* row gets the balance computed from the value read                       *)
TopupSaveWallet(q) ==
    /\ conc[q].pc = "read"
    /\ LET t == Len(txs)
           transaction == txs[t]
           k == <<transaction.user_id, transaction.warnet_id>>
       IN  /\ wallets' = [wallets EXCEPT ![k].balance = conc[q].seen + transaction.amount]
           /\ credits' = [credits EXCEPT ![t] = @ + 1]
    /\ conc' = [conc EXCEPT ![q].pc = "credited"]
    /\ UNCHANGED <<bookings, txs, pcs, now, resp, faults, chat, listing>>

(* transaction.status = 'completed'; transaction.save() and the response   *)
(* (lines 484-501)                                                         *)
TopupSaveTransaction(q) ==
    /\ conc[q].pc = "credited"
    /\ LET t == Len(txs)
       IN  /\ txs' = [txs EXCEPT ![t] =
                    [@ EXCEPT !.status = "completed", !.approved_by = 2]]
           /\ Respond("approveTopup", 200, txs[t].amount)
    /\ conc' = [conc EXCEPT ![q].pc = "done"]
    /\ UNCHANGED <<bookings, wallets, pcs, now, credits, faults, chat, listing>>

NextT ==
    \/ \E q \in Procs : TopupFind(q)
    \/ \E q \in Procs : TopupReadWallet(q)
    \/ \E q \in Procs : TopupSaveWallet(q)
    \/ \E q \in Procs : TopupSaveTransaction(q)

SpecT == InitT /\ [][NextT]_vars

(***************************************************************************)
(* Two requests on booking 1 of user 1 at venue 1 running at the same      *)
(* time, each a cancel of user 1 or an approve of operator 2.  A request   *)
(* first loads the booking with Booking.find and checks the instance it    *)
(* loaded, outside any database transaction; it then opens its             *)
(* transaction, whose first statement is the UPDATE of the booking row:    *)
(* that statement waits while the other request's transaction holds an     *)
(* uncommitted UPDATE of the row, so the two transactions run one after    *)
(* the other, each on the instance its request loaded.                     *)
(***************************************************************************)
IdleB == [pc |-> "start", op |-> "none", booking |-> <<>>]

(* booking 1 is either a bank-transfer booking waiting for approval or a   *)
(* booking paid from a wallet that held one approved top-up of 25000       *)
InitB ==
    /\ now = 0
    /\ \E duration \in ConcDurations, byWallet \in BOOLEAN :
            LET total == totalPrice(1, 1, duration, ~byWallet)
            IN  IF byWallet
                THEN /\ bookings = <<NewBooking(1, 1, 1, duration, FALSE, "active", "paid")>>
                     /\ wallets = [k \in Users \X Warnets |->
                            IF k = <<1, 1>>
                            THEN [exists |-> TRUE, balance |-> 25000 - total]
                            ELSE NoWallet]
                     /\ txs = <<[user_id |-> 1, type |-> "topup", amount |-> 25000,
                                 booking_id |-> 0, warnet_id |-> 1,
                                 status |-> "completed", approved_by |-> 2],
                                [user_id |-> 1, type |-> "payment", amount |-> -total,
                                 booking_id |-> 1, warnet_id |-> 1,
                                 status |-> "completed", approved_by |-> 0]>>
                     /\ credits = <<1, 0>>
                     /\ pcs = [k \in Warnets \X PcNumbers |->
                            IF k[2] = 2
                            THEN [status |-> "maintenance", current_booking_id |-> 0]
                            ELSE IF k = <<1, 1>>
                            THEN [status |-> "occupied", current_booking_id |-> 1]
                            ELSE NoPc]
                ELSE /\ bookings = <<NewBooking(1, 1, 1, duration, TRUE, "pending", "pending")>>
                     /\ wallets = [k \in Users \X Warnets |->
                            IF k = <<1, 1>> THEN [exists |-> TRUE, balance |-> 0]
                            ELSE NoWallet]
                     /\ txs = <<>>
                     /\ credits = <<>>
                     /\ pcs = [k \in Warnets \X PcNumbers |->
                            IF k[2] = 2
                            THEN [status |-> "maintenance", current_booking_id |-> 0]
                            ELSE NoPc]
    /\ resp = [op |-> "none", code |-> 0, data |-> 0]
    /\ faults = 0
    /\ chat = <<>>
    /\ listing = {}
    /\ conc = [q \in Procs |-> IdleB]

(* cancel up to the opening of its transaction (lines 278-318) *)
CancelFind(q) ==
    /\ conc[q].pc = "start"
    /\ LET booking == bookings[1]
       IN  IF ~CancelOwns(1, booking)
           THEN /\ conc' = [conc EXCEPT ![q] = [@ EXCEPT !.pc = "refused", !.op = "cancel"]]
                /\ Respond("cancel", 403, 0)
           ELSE IF booking.status = "cancelled" \/ booking.status = "completed"
           THEN /\ conc' = [conc EXCEPT ![q] = [@ EXCEPT !.pc = "refused", !.op = "cancel"]]
                /\ Respond("cancel", 400, 0)
           ELSE IF ~canCancel(booking)
           THEN /\ conc' = [conc EXCEPT ![q] = [@ EXCEPT !.pc = "refused", !.op = "cancel"]]
                /\ Respond("cancel", 400, booking.can_cancel_until)
           ELSE /\ conc' = [conc EXCEPT ![q] =
                        [pc |-> "found", op |-> "cancel", booking |-> <<booking>>]]
                /\ UNCHANGED resp
    /\ UNCHANGED <<db, now, credits, faults, chat, listing>>

(* the transaction of cancel, from booking.save() to trx.commit(), and     *)
(* the response (lines 322-392)                                            *)
CancelRun(q) ==
    /\ conc[q].pc = "found" /\ conc[q].op = "cancel"
    /\ CancelWrites(1, 1, conc[q].booking[1])
    /\ conc' = [conc EXCEPT ![q].pc = "done"]
    /\ UNCHANGED <<now, faults, chat, listing>>

(* approve up to the opening of its transaction (lines 532-567) *)
ApproveFind(q) ==
    /\ conc[q].pc = "start"
    /\ LET booking == bookings[1]
       IN  IF ~OperatorMayAct(2, booking)
           THEN /\ conc' = [conc EXCEPT ![q] = [@ EXCEPT !.pc = "refused", !.op = "approve"]]
                /\ Respond("approveBooking", 403, 0)
           ELSE IF ApproveRefused(booking)
           THEN /\ conc' = [conc EXCEPT ![q] = [@ EXCEPT !.pc = "refused", !.op = "approve"]]
                /\ Respond("approveBooking", 400, 0)
           ELSE /\ conc' = [conc EXCEPT ![q] =
                        [pc |-> "found", op |-> "approve", booking |-> <<booking>>]]
                /\ UNCHANGED resp
    /\ UNCHANGED <<db, now, credits, faults, chat, listing>>

(* the transaction of approve, from booking.save() to trx.commit(), and    *)
(* the response (lines 571-599)                                            *)
ApproveRun(q) ==
    /\ conc[q].pc = "found" /\ conc[q].op = "approve"
    /\ ApproveBookingWrites(2, 1)
    /\ Respond("approveBooking", 200, 0)
    /\ conc' = [conc EXCEPT ![q].pc = "done"]
    /\ UNCHANGED <<wallets, txs, credits, now, faults, chat, listing>>

NextB ==
    \/ \E q \in Procs : CancelFind(q)
    \/ \E q \in Procs : CancelRun(q)
    \/ \E q \in Procs : ApproveFind(q)
    \/ \E q \in Procs : ApproveRun(q)

SpecB == InitB /\ [][NextB]_vars

(* The handlers that write a wallet or open a database transaction, each   *)
(* either running to its response or meeting a throwing step, and topup,   *)
(* which feeds approve.                                                    *)
NextF ==
    \/ \E u \in Customers, a \in TopupAmounts, w \in Warnets : Topup(u, a, w)
    \/ \E u \in Customers, w \in Warnets, p \in PcNumbers, d \in Durations,
          m \in PaymentMethods, f \in BOOLEAN : Create(u, w, p, d, m, f)
    \/ \E u \in Users, b \in BookingIds : Cancel(u, b)
    \/ \E u \in Users, b \in BookingIds : ApproveBooking(u, b)
    \/ \E u \in Users, b \in BookingIds, a \in PaymentAmounts : Payment(u, b, a)
    \/ \E u \in Customers, b \in BookingIds, a \in RefundAmounts : Refund(u, b, a)
    \/ \E u \in Users, t \in TxIds : ApproveTopup(u, t)
    \/ \E u \in Customers, w \in Warnets, p \in PcNumbers, d \in Durations,
          m \in PaymentMethods, f \in BOOLEAN, c \in BOOLEAN :
            CreateFails(u, w, p, d, m, f, c)
    \/ \E u \in Users, b \in BookingIds : CancelFails(u, b)
    \/ \E u \in Users, b \in BookingIds, c \in BOOLEAN : ApproveBookingFails(u, b, c)
    \/ \E u \in Users, b \in BookingIds, a \in PaymentAmounts, c \in BOOLEAN :
            PaymentFails(u, b, a, c)
    \/ \E u \in Customers, b \in BookingIds, a \in RefundAmounts, c \in BOOLEAN :
            RefundFails(u, b, a, c)
    \/ \E u \in Users, t \in TxIds, c \in BOOLEAN : ApproveTopupFails(u, t, c)

(* at most MaxFaults of the requests meet a throwing step *)
SpecF == Init /\ [][NextF]_vars

(***************************************************************************)
(* Properties                                                              *)
(***************************************************************************)
Balance(k) == IF wallets[k].exists THEN wallets[k].balance ELSE 0

TopupIds == {t \in 1..Len(txs) : txs[t].type = "topup"}

C1_CreditedOnce ==
    \A t \in TopupIds :
        credits[t] = (IF txs[t].status = "completed" THEN 1 ELSE 0)

C1_CreditStep ==
    \A t \in TopupIds :
        credits'[t] # credits[t] =>
            LET k == <<txs[t].user_id, txs[t].warnet_id>>
            IN  /\ credits'[t] = credits[t] + 1
                /\ \E u \in Users :
                        /\ ApproveTopup(u, t)
                        /\ role(u) = "operator"
                        /\ warnet_id(u) = txs[t].warnet_id
                /\ wallets'[k].exists
                /\ wallets'[k].balance = Balance(k) + txs[t].amount
                /\ \A j \in DOMAIN wallets : j # k => wallets'[j] = wallets[j]

(* C1: a top-up's amount is added to the owner's (user, venue) wallet      *)
(* exactly once if the top-up is completed and never otherwise; the credit *)
(* happens only in an approve request of an operator whose venue is the    *)
(* top-up's venue.                                                         *)
C1_TopupCreditedOnce == []C1_CreditedOnce /\ [][C1_CreditStep]_vars

C1_Witness ==
    /\ resp.op = "approveTopup" /\ resp.code = 200
    /\ \E t \in TopupIds :
            /\ txs[t].status = "completed" /\ credits[t] = 1
            /\ txs[t].approved_by = 2
            /\ wallets[<<txs[t].user_id, txs[t].warnet_id>>].balance = txs[t].amount

RECURSIVE SumPayments(_, _)
SumPayments(b, i) ==
    IF i = 0 THEN 0
    ELSE SumPayments(b, i - 1)
         + (IF txs[i].booking_id = b /\ txs[i].type = "payment" THEN -txs[i].amount ELSE 0)

(* what the payment transactions of booking b took from the wallet *)
Debited(b) == SumPayments(b, Len(txs))

C2_CancelStep ==
    \A u \in Users, b \in BookingIds :
        (/\ b <= Len(bookings)
         /\ bookings[b].payment_status = "paid"
         /\ bookings[b].duration > 0
         /\ HasPaymentTransaction(b)
         /\ Cancel(u, b)
         /\ resp'.code = 200)
        => LET k == <<u, bookings[b].warnet_id>>
           IN  wallets'[k].balance - Balance(k) = Debited(b)

(* C2: an accepted cancel of a booking paid from the wallet credits the    *)
(* wallet by exactly what was debited for that booking, whichever endpoint *)
(* recorded the payment (stated here for bookings of positive duration).   *)
C2_CancelRestoresDebit == [][C2_CancelStep]_vars

WalletCreates ==
    {<<u, w, p, d, f>> \in Customers \X Warnets \X PcNumbers \X Durations \X BOOLEAN :
        Create(u, w, p, d, "dompet_bowar", f)}

(* the three writes of a wallet-funded create *)
CreateCommitted(u, w, p, d, f) ==
    LET id == Len(bookings) + 1
        total == totalPrice(u, w, d, IsFormData(f))
    IN  /\ Len(bookings') = id
        /\ bookings'[id].status = "active" /\ bookings'[id].payment_status = "paid"
        /\ bookings'[id].user_id = u /\ bookings'[id].warnet_id = w
        /\ bookings'[id].pc_number = p /\ bookings'[id].total_price = total
        /\ \A j \in 1..Len(bookings) : bookings'[j] = bookings[j]
        /\ wallets[<<u, w>>].exists
        /\ wallets' = [wallets EXCEPT ![<<u, w>>].balance = @ - total]
        /\ Len(txs') = Len(txs) + 1
        /\ \A j \in 1..Len(txs) : txs'[j] = txs[j]
        /\ LET tx == txs'[Len(txs')]
           IN  /\ tx.type = "payment" /\ tx.status = "completed"
               /\ tx.amount = -total /\ tx.booking_id = id
               /\ tx.user_id = u /\ tx.warnet_id = w

C3_CreateStep ==
    \A c \in WalletCreates :
        LET u == c[1]  w == c[2]  p == c[3]  d == c[4]  f == c[5]
            total == totalPrice(u, w, d, IsFormData(f))
        IN  /\ CreateCommitted(u, w, p, d, f) \/ UNCHANGED db
            /\ (~wallets[<<u, w>>].exists \/ wallets[<<u, w>>].balance < total)
                    => UNCHANGED db /\ resp'.code = 400
            /\ resp'.code = 201 <=> CreateCommitted(u, w, p, d, f)

(* C3: a wallet-funded create is atomic: the wallet is debited by the      *)
(* total price, a completed payment transaction is written and the booking *)
(* is stored paid and active, or (always when the wallet is missing or     *)
(* short) no table changes at all.                                         *)
C3_WalletCreateAtomic == [][C3_CreateStep]_vars

(* a wallet-funded create was refused for lack of funds and left nothing   *)
C3_Witness ==
    /\ resp.op = "create" /\ resp.code = 400 /\ resp.data = 20000
    /\ wallets[<<1, 1>>].balance < 20000
    /\ bookings = <<>> /\ txs = <<>>
    /\ pcs[<<1, 1>>] = NoPc

C4_CancelStep ==
    \A u \in Users, b \in BookingIds :
        (b <= Len(bookings) /\ Cancel(u, b)) =>
            LET booking == bookings[b]
                accepted == resp'.code = 200
                open == /\ now <= booking.can_cancel_until
                        /\ booking.status \notin {"cancelled", "completed"}
            IN  /\ booking.user_id = u => (accepted <=> open)
                /\ booking.user_id # u => ~accepted
                /\ accepted => bookings'[b].status = "cancelled"
                /\ ~accepted => UNCHANGED db

(* C4: a cancel by the booking's owner is accepted iff now is at or before *)
(* can_cancel_until and the status is neither cancelled nor completed; a   *)
(* cancel by anyone else, or a refused one, changes no table.              *)
C4_CancelAcceptedIff == [][C4_CancelStep]_vars

(* the owner's cancel was refused because the window had closed *)
C4_Witness ==
    /\ resp.op = "cancel" /\ resp.code = 400
    /\ Len(bookings) = 1
    /\ resp.data = bookings[1].can_cancel_until
    /\ now > bookings[1].can_cancel_until
    /\ bookings[1].status = "active"

C5_Step ==
    \A u \in Users, b \in BookingIds :
        (/\ b <= Len(bookings)
         /\ role(u) # "operator" \/ warnet_id(u) # bookings[b].warnet_id
         /\ ApproveBooking(u, b) \/ RejectBooking(u, b))
        => resp'.code = 403 /\ UNCHANGED db

(* C5: an approve or reject of a booking by a non-operator, or by an       *)
(* operator of another venue, is answered 403 and changes no table.        *)
C5_ForeignOperatorForbidden == [][C5_Step]_vars

C5_Witness ==
    /\ resp.op = "approveBooking" /\ resp.code = 403
    /\ Len(bookings) = 1
    /\ bookings[1].warnet_id = 2
    /\ bookings[1].status = "pending" /\ bookings[1].payment_status = "pending"
    /\ pcs[<<2, 1>>] = NoPc

C6_Step ==
    \A c \in WalletCreates :
        LET u == c[1]  w == c[2]  p == c[3]  d == c[4]
            id == Len(bookings) + 1
            total == totalPrice(u, w, d, IsFormData(c[5]))
            k == <<u, w>>
        IN  resp'.code = 201 =>
                /\ wallets[k].exists /\ wallets[k].balance >= total
                /\ wallets'[k].balance = wallets[k].balance - total
                /\ bookings'[id].status = "active"
                /\ bookings'[id].payment_status = "paid"
                /\ bookings'[id].total_price = bookings'[id].price_per_hour * d
                /\ Cardinality({t \in 1..Len(txs') : txs'[t].booking_id = id}) = 1
                /\ \A t \in 1..Len(txs') : txs'[t].booking_id = id =>
                        /\ txs'[t].type = "payment" /\ txs'[t].status = "completed"
                        /\ txs'[t].amount = -total
                /\ pcs'[<<w, p>>] = [status |-> "occupied", current_booking_id |-> id]

(* C6: a successful wallet-funded create with balance b >= total_price     *)
(* leaves the wallet at b - total_price, the booking active and paid, one  *)
(* completed payment transaction of -total_price for the booking, and the  *)
(* PC of (venue, pc_number) occupied by the new booking.                   *)
C6_WalletCreateEffect == [][C6_Step]_vars

(* duration 2 at rate 10000 from a balance of 25000 leaves 5000 *)
C6_Witness ==
    /\ resp.op = "create" /\ resp.code = 201 /\ resp.data = 20000
    /\ Len(bookings) = 1
    /\ bookings[1].duration = 2 /\ bookings[1].price_per_hour = 10000
    /\ bookings[1].status = "active" /\ bookings[1].payment_status = "paid"
    /\ wallets[<<1, 1>>].balance = 5000
    /\ pcs[<<1, 1>>] = [status |-> "occupied", current_booking_id |-> 1]

C7_NoEndedReference ==
    \A k \in DOMAIN pcs :
        pcs[k].current_booking_id # 0 =>
            /\ pcs[k].current_booking_id <= Len(bookings)
            /\ bookings[pcs[k].current_booking_id].status \notin {"cancelled", "completed"}

C7_CancelStep ==
    \A u \in Users, b \in BookingIds :
        (b <= Len(bookings) /\ Cancel(u, b) /\ resp'.code = 200) =>
            LET k == <<bookings[b].warnet_id, bookings[b].pc_number>>
            IN  /\ bookings'[b].status = "cancelled"
                /\ IF pcs[k].current_booking_id = b
                   THEN pcs'[k] = [status |-> "available", current_booking_id |-> 0]
                   ELSE pcs'[k] = pcs[k]

(* C7: no PC row references a booking that is cancelled or completed; an   *)
(* accepted cancel sets the booking cancelled and, if the PC of (venue,    *)
(* pc_number) still references it, makes that PC available with no         *)
(* reference.                                                              *)
C7_PcReferenceCleared == []C7_NoEndedReference /\ [][C7_CancelStep]_vars

C7_Witness ==
    /\ resp.op = "cancel" /\ resp.code = 200
    /\ Len(bookings) = 1
    /\ bookings[1].status = "cancelled" /\ bookings[1].payment_status = "paid"
    /\ pcs[<<bookings[1].warnet_id, 1>>] = [status |-> "available", current_booking_id |-> 0]

C8_Step ==
    \A b \in 1..Len(bookings) :
        bookings'[b].payment_status # bookings[b].payment_status =>
            /\ bookings[b].payment_status = "pending"
            /\ bookings'[b].payment_status \in {"paid", "rejected"}

(* C8: a booking's payment_status changes only from pending to paid or     *)
(* from pending to rejected, hence at most once.                           *)
C8_PaymentStatusOnce == [][C8_Step]_vars

C8_Witness ==
    /\ resp.op = "rejectBooking" /\ resp.code = 200
    /\ Len(bookings) = 1
    /\ bookings[1].payment_status = "rejected"

C9_Step ==
    /\ \A b \in 1..Len(bookings) :
            bookings'[b].status # bookings[b].status =>
                \/ /\ bookings[b].status = "pending" /\ bookings'[b].status = "active"
                   /\ bookings[b].payment_status = "pending"
                   /\ bookings'[b].payment_status = "paid"
                \/ /\ bookings[b].status \in {"pending", "active"}
                   /\ bookings'[b].status = "cancelled"
                \/ CompleteSession(b)
    /\ \A u \in Users, b \in BookingIds :
            (/\ b <= Len(bookings)
             /\ bookings[b].status = "cancelled"
             /\ ApproveBooking(u, b))
            => resp'.code \in {400, 403} /\ UNCHANGED db

(* C9: under the requests a booking's status only moves pending to active  *)
(* (together with payment_status pending to paid) or pending/active to     *)
(* cancelled; cancelled is terminal and an approve of a cancelled booking  *)
(* is refused.  (The end of a session, active to completed, is no request.)*)
C9_StatusMoves == [][C9_Step]_vars

C9_Witness ==
    /\ resp.op = "approveBooking" /\ resp.code = 400
    /\ Len(bookings) = 1
    /\ bookings[1].warnet_id = 1
    /\ bookings[1].status = "cancelled" /\ bookings[1].payment_status = "rejected"

(* C10: every CafeWallet balance is >= 0 in every reachable state.         *)
C10_BalanceNonNegative == \A k \in DOMAIN wallets : wallets[k].balance >= 0

RECURSIVE SumCompletedTopups(_, _)
SumCompletedTopups(k, i) ==
    IF i = 0 THEN 0
    ELSE SumCompletedTopups(k, i - 1)
         + (IF /\ txs[i].type = "topup" /\ txs[i].status = "completed"
               /\ txs[i].user_id = k[1] /\ txs[i].warnet_id = k[2]
            THEN txs[i].amount ELSE 0)

(* the approved top-ups of user k[1] at venue k[2] *)
CompletedTopups(k) == SumCompletedTopups(k, Len(txs))

(* C11: funds enter a wallet only through operator approval: the balance   *)
(* of every (user, venue) wallet is at most the sum of that user's         *)
(* completed top-ups at that venue.                                        *)
C11_BalanceWithinTopups ==
    \A k \in DOMAIN wallets : Balance(k) <= CompletedTopups(k)

(* C13: every payment transaction has a negative amount and every top-up   *)
(* or refund transaction a positive one.                                   *)
C13_SignedAmounts ==
    \A t \in 1..Len(txs) :
        /\ txs[t].type = "payment" => txs[t].amount < 0
        /\ txs[t].type \in {"topup", "refund"} => txs[t].amount > 0

C16_Step ==
    \A u \in Users, b \in BookingIds :
        (b <= Len(bookings) /\ ApproveBooking(u, b) /\ resp'.code = 200) =>
            LET k == <<bookings[b].warnet_id, bookings[b].pc_number>>
            IN  /\ role(u) = "operator"
                /\ bookings' = [bookings EXCEPT ![b] =
                        [@ EXCEPT !.payment_status = "paid", !.status = "active",
                                  !.approved_by = u, !.approved_at = now]]
                /\ pcs' = [pcs EXCEPT ![k] =
                        [status |-> "occupied", current_booking_id |-> b]]
                /\ wallets' = wallets
                /\ txs' = txs

(* C16: an accepted operator approve sets, in one step, payment_status     *)
(* paid, status active, approved_by the operator and approved_at the       *)
(* current time, and makes the PC of (venue, pc_number) occupied by the    *)
(* booking, creating the row if absent; no wallet and no transaction       *)
(* changes.                                                                *)
C16_ApproveEffect == [][C16_Step]_vars

(* a bank-transfer booking on a PC that had no row was approved *)
C16_Witness ==
    /\ resp.op = "approveBooking" /\ resp.code = 200
    /\ Len(bookings) = 1
    /\ bookings[1].status = "active" /\ bookings[1].payment_status = "paid"
    /\ bookings[1].approved_by = 2 /\ bookings[1].approved_at = now
    /\ pcs[<<1, 1>>] = [status |-> "occupied", current_booking_id |-> 1]
    /\ txs = <<>>
    /\ wallets[<<1, 1>>].balance = 0

C17_Step ==
    \A u \in Users, b \in BookingIds :
        (b <= Len(bookings) /\ RejectBooking(u, b)) =>
            /\ resp'.code = 200 =>
                    /\ bookings' = [bookings EXCEPT ![b] =
                            [@ EXCEPT !.payment_status = "rejected",
                                      !.status = "cancelled"]]
                    /\ wallets' = wallets /\ txs' = txs /\ pcs' = pcs
            /\ (bookings[b].payment_status = "paid" \/ bookings[b].status = "cancelled")
                    => resp'.code # 200 /\ UNCHANGED db

(* C17: an accepted operator reject sets payment_status rejected and       *)
(* status cancelled and changes no wallet, no transaction and no PC; a     *)
(* reject of a paid or cancelled booking is refused and changes nothing.   *)
C17_RejectEffect == [][C17_Step]_vars

(* the operator's reject of a booking the user had cancelled was refused *)
C17_Witness ==
    /\ resp.op = "rejectBooking" /\ resp.code = 400
    /\ Len(bookings) = 1
    /\ bookings[1].status = "cancelled" /\ bookings[1].payment_status = "pending"

C18_Step ==
    /\ \A u \in Users, t \in TxIds :
            (t <= Len(txs) /\ ApproveTopup(u, t)) =>
                /\ resp'.code = 200 =>
                        txs[t].status = "pending" /\ txs[t].type = "topup"
                /\ txs[t].status \in {"completed", "failed"} =>
                        resp'.code # 200 /\ UNCHANGED <<db, credits>>
    /\ \A u \in Users, t \in TxIds :
            (t <= Len(txs) /\ RejectTopup(u, t)) =>
                /\ resp'.code = 200 =>
                        /\ txs[t].status = "pending"
                        /\ txs' = [txs EXCEPT ![t].status = "failed"]
                        /\ wallets' = wallets
                /\ txs[t].status \in {"completed", "failed"} =>
                        resp'.code # 200 /\ UNCHANGED <<db, credits>>
    /\ \A t \in 1..Len(txs) :
            txs'[t].status # txs[t].status => txs[t].status = "pending"

(* C18: top-up approve is accepted only for a pending transaction of type  *)
(* topup and top-up reject only for a pending one; reject marks it failed  *)
(* and changes no wallet; approve or reject of a completed or failed       *)
(* transaction is refused without any change, so a transaction's status    *)
(* changes at most once.                                                   *)
C18_TopupDecidedOnce == [][C18_Step]_vars

(* the approve of a top-up that had been rejected was refused *)
C18_Witness ==
    /\ resp.op = "approveTopup" /\ resp.code = 400
    /\ \E t \in TopupIds :
            /\ txs[t].status = "failed" /\ txs[t].warnet_id = 1
            /\ credits[t] = 0
            /\ wallets[<<1, 1>>].balance = 0

Creates ==
    {c \in Customers \X Warnets \X PcNumbers \X Durations \X PaymentMethods \X BOOLEAN :
        Create(c[1], c[2], c[3], c[4], c[5], c[6])}

C19_Step ==
    \A c \in Creates :
        LET u == c[1]  w == c[2]  d == c[4]
            home == role(u) = "member" /\ warnet_id(u) = w
        IN  /\ resp'.code = 201 =>
                    LET booking == bookings'[Len(bookings')]
                    IN  /\ booking.total_price = booking.price_per_hour * d
                        /\ booking.price_per_hour =
                                (IF home /\ d > 1 THEN member_price_per_hour(w)
                                 ELSE regular_price_per_hour(w))
            /\ (home /\ d <= 1) => resp'.code = 400 /\ UNCHANGED db

(* C19: an accepted create has total_price = price_per_hour x duration,    *)
(* at the member rate iff the user is a member, the booked venue is the    *)
(* user's home venue and duration > 1, at the regular rate otherwise; a    *)
(* member's booking at the home venue with duration <= 1 is refused with   *)
(* 400 and changes no table.                                               *)
C19_MemberPricing == [][C19_Step]_vars

C12_Step ==
    \A k \in DOMAIN wallets :
        wallets'[k] # wallets[k] =>
            LET delta == wallets'[k].balance - Balance(k)
            IN  \/ /\ Len(txs') = Len(txs) + 1
                   /\ LET tx == txs'[Len(txs')]
                      IN  /\ tx.user_id = k[1] /\ tx.warnet_id = k[2]
                          /\ tx.status = "completed" /\ tx.amount = delta
                \/ \E t \in 1..Len(txs) :
                        /\ txs[t].type = "topup" /\ txs[t].amount = delta
                        /\ txs[t].user_id = k[1] /\ txs[t].warnet_id = k[2]
                        /\ txs[t].status = "pending" /\ txs'[t].status = "completed"

(* C12: every change of a wallet balance happens in the same step as the   *)
(* write of the transaction record that explains it (a new completed       *)
(* record of that amount, or the credited top-up turning completed), also  *)
(* when a step of the request fails between two writes.                    *)
C12_BalanceChangeRecorded == [][C12_Step]_vars

C15_Step ==
    (resp'.code = 500 /\ resp'.op \in {"create", "cancel", "approveBooking"})
        => UNCHANGED db

(* C15: a booking create, booking cancel or operator booking approve in    *)
(* which a step fails after the database transaction was opened ends with  *)
(* an error and leaves every booking, wallet, transaction and PC as it     *)
(* was before the request.                                                 *)
C15_FailureRollsBack == [][C15_Step]_vars

RECURSIVE SumPaid(_)
SumPaid(i) ==
    IF i = 0 THEN 0
    ELSE SumPaid(i - 1)
         + (IF bookings[i].payment_status = "paid" THEN bookings[i].total_price ELSE 0)

(* C14: two concurrent wallet-funded creates on one wallet behave as if    *)
(* run one after the other: when both have ended the balance is the        *)
(* initial balance (the approved top-ups) minus the total_price of every   *)
(* booking stored as paid, and no request committed a paid booking while   *)
(* the stored balance at its commit was below its total_price.             *)
C14_ConcurrentCreatesSerialize ==
    /\ (\A q \in DOMAIN conc : conc[q].pc \in {"committed", "refused"})
            => wallets[<<1, 1>>].balance
                    = CompletedTopups(<<1, 1>>) - SumPaid(Len(bookings))
    /\ \A q \in DOMAIN conc :
            conc[q].pc = "committed"
                => conc[q].before >= totalPrice(1, 1, conc[q].duration, FALSE)

C20_Step ==
    \A m \in 1..Len(chat) :
        (~chat[m].is_read /\ chat'[m].is_read) =>
            \E u \in ChatUsers :
                /\ MarkRead(u, m)
                /\ u # chat[m].sender_id
                /\ IF chat[m].sender_type = "operator"
                   THEN u = chat[m].user_id
                   ELSE role(u) = "operator" /\ warnet_id(u) = chat[m].warnet_id

(* C20: a message's is_read flag becomes true only in a mark-read request  *)
(* of the recipient side: the conversation's user for an operator-sent     *)
(* message, an operator of the message's venue for a user-sent one; a      *)
(* mark-read by the sender or by anyone else leaves the flag as it is.     *)
C20_ReadByRecipientOnly == [][C20_Step]_vars

C25_Step ==
    /\ \A c \in Creates :
            (c[5] # "dompet_bowar" /\ resp'.code = 201) =>
                /\ Len(bookings') = Len(bookings) + 1
                /\ \A b \in 1..Len(bookings) : bookings'[b] = bookings[b]
                /\ bookings'[Len(bookings')].status = "pending"
                /\ bookings'[Len(bookings')].payment_status = "pending"
                /\ wallets' = wallets /\ txs' = txs /\ pcs' = pcs
    /\ \A b \in 1..Len(bookings) :
            (/\ bookings[b].status = "pending"
             /\ bookings[b].payment_status = "pending"
             /\ bookings'[b] # bookings[b])
            => \E u \in Users :
                    ApproveBooking(u, b) \/ RejectBooking(u, b) \/ Cancel(u, b)

(* C25: a successful create paid by another method than dompet_bowar       *)
(* stores the booking pending / pending and changes no wallet, no          *)
(* transaction and no PC; the booking stays as stored until an operator    *)
(* approve or reject or a user cancel.                                     *)
C25_BankTransferCreateFrame == [][C25_Step]_vars

(* a bank-transfer booking is waiting for the operator while time passes *)
C25_Witness ==
    /\ Len(bookings) = 1
    /\ bookings[1].status = "pending" /\ bookings[1].payment_status = "pending"
    /\ now > bookings[1].can_cancel_until
    /\ txs = <<>>
    /\ wallets[<<1, 1>>].balance = 0
    /\ \A k \in DOMAIN pcs : pcs[k].current_booking_id = 0

(* C26: a booking whose payment_status is pending or rejected holds no     *)
(* funds: no completed payment transaction is attributed to it.            *)
C26_UnpaidHoldsNoFunds ==
    \A b \in 1..Len(bookings) :
        bookings[b].payment_status \in {"pending", "rejected"} =>
            \A t \in 1..Len(txs) :
                ~(/\ txs[t].booking_id = b /\ txs[t].type = "payment"
                  /\ txs[t].status = "completed")

RECURSIVE SumCompleted(_, _)
SumCompleted(k, i) ==
    IF i = 0 THEN 0
    ELSE SumCompleted(k, i - 1)
         + (IF /\ txs[i].status = "completed"
               /\ txs[i].user_id = k[1] /\ txs[i].warnet_id = k[2]
            THEN txs[i].amount ELSE 0)

(* C28: requests run one after another keep the ledger consistent: the     *)
(* balance of every (user, venue) wallet is the sum of the amounts of that *)
(* user's completed transactions at that venue.                            *)
C28_LedgerConsistent ==
    \A k \in DOMAIN wallets : Balance(k) = SumCompleted(k, Len(txs))

(* a top-up, a payment and a refund have all gone through the wallet *)
C28_Witness ==
    /\ Len(txs) = 3
    /\ {txs[t].type : t \in 1..3} = {"topup", "payment", "refund"}
    /\ \A t \in 1..3 : txs[t].status = "completed" /\ txs[t].warnet_id = 1
    /\ wallets[<<1, 1>>].balance = 25000

C29_Step ==
    \A u \in Users, b \in BookingIds :
        (b <= Len(bookings) /\ Cancel(u, b) /\ resp'.code = 200) =>
            LET k == <<u, bookings[b].warnet_id>>
            IN  resp'.data = wallets'[k].balance - Balance(k)

(* C29: the refunded amount an accepted cancel reports is the amount the   *)
(* cancel credited to the user's wallet: total_price when a refund         *)
(* transaction was written, 0 otherwise.                                   *)
C29_ReportedRefundIsCredited == [][C29_Step]_vars

(* C27: every booking that is active and paid is the current booking of    *)
(* its PC: the PC row of its venue and pc_number is occupied and           *)
(* references it (so a create or approve on a PC occupied by another       *)
(* active booking does not displace that booking).                         *)
C27_ActiveBookingHoldsPc ==
    \A b \in 1..Len(bookings) :
        (bookings[b].status = "active" /\ bookings[b].payment_status = "paid") =>
            pcs[<<bookings[b].warnet_id, bookings[b].pc_number>>]
                = [status |-> "occupied", current_booking_id |-> b]

C21_Step ==
    /\ Len(chat') > Len(chat) =>
            LET message == chat'[Len(chat')]
            IN  IF role(message.sender_id) = "operator"
                THEN message.warnet_id = warnet_id(message.sender_id)
                ELSE message.user_id = message.sender_id
    /\ \A u \in ChatUsers, w \in Warnets : \A m \in 1..Len(chat) :
            (ChatIndex(u, w, 0) /\ m \in listing') =>
                chat[m].user_id = u /\ chat[m].warnet_id = w
    /\ \A u \in ChatUsers, t \in ChatUsers : \A m \in 1..Len(chat) :
            (ChatIndex(u, 0, t) /\ m \in listing') =>
                /\ chat[m].user_id = t /\ chat[m].warnet_id = warnet_id(u)
                /\ role(u) # "operator" => chat[m].user_id = u

(* C21: chat is scoped by (user, venue): a non-operator's message is       *)
(* stored with user_id = sender, an operator's with warnet_id = the        *)
(* operator's venue; the user endpoint lists only the caller's own         *)
(* conversation with the venue, the operator endpoint only the given       *)
(* user's conversation with the operator's venue, and never another        *)
(* user's messages to a caller who is no operator.                         *)
C21_ChatScoped == [][C21_Step]_vars

(* C22: when two approve requests for the same pending top-up run at the   *)
(* same time, the wallet is credited by the top-up amount exactly once and *)
(* the transaction is completed once: after both requests have answered,   *)
(* the balance is the sum of the completed top-ups.                        *)
C22_ConcurrentApproveCreditsOnce ==
    (\A q \in Procs : conc[q].pc \in {"done", "refused"}) =>
        /\ txs[Len(txs)].status = "completed"
        /\ Balance(<<1, 1>>) = CompletedTopups(<<1, 1>>)

(* the refund transactions written for booking b *)
Refunds(b) == {i \in 1..Len(txs) : txs[i].type = "refund" /\ txs[i].booking_id = b}

(* C23: a booking is refunded at most once, also when two cancel requests  *)
(* for the same paid booking run at the same time: there is at most one    *)
(* refund transaction for it and the wallet never holds more than the      *)
(* approved top-ups.                                                       *)
C23_RefundedAtMostOnce ==
    /\ \A b \in 1..Len(bookings) : Cardinality(Refunds(b)) <= 1
    /\ Balance(<<1, 1>>) <= CompletedTopups(<<1, 1>>)

(* C24: when a cancel of the user and an approve of the operator for the   *)
(* same pending booking run at the same time and the cancel was accepted,  *)
(* the booking ends cancelled and no PC row is left occupied with a        *)
(* reference to it.                                                        *)
C24_AcceptedCancelWins ==
    \A q \in Procs, r \in Procs :
        (/\ conc[q].op = "cancel" /\ conc[q].pc = "done"
         /\ conc[r].op = "approve" /\ conc[r].pc \in {"done", "refused"}) =>
            /\ bookings[1].status = "cancelled"
            /\ \A k \in DOMAIN pcs :
                    ~(pcs[k].status = "occupied" /\ pcs[k].current_booking_id = 1)
====
